---- MODULE Spec2Model ----
(***************************************************************************)
(* A model of the OEJP integration (src/api.py, src/sensor.py,            *)
(* src/coordinator.py): the API session and its token lifecycle, the       *)
(* classification of responses in _post, the retrieval of half-hourly      *)
(* readings, and the cumulative-energy accumulator.                        *)
(*                                                                         *)
(* Conventions.  An optional value (Python None or a value) is a sequence  *)
(* of length 0 or 1.  A Python str that the code compares is a sequence of *)
(* character digits, compared as Python compares strings.  Energy values   *)
(* are integers in units of 0.1 kWh; the float additions of the code are   *)
(* modelled as exact additions of these integers.  Instants are integers   *)
(* in half-hours since 2023-12-31T00:00:00Z; the clock of the API session  *)
(* counts minutes.                                                         *)
(***************************************************************************)
EXTENDS Integers, Sequences, FiniteSets, TLC

VARIABLES
  total,        \* OEJPCumulativeEnergy._total: None or a number
  last_end,     \* OEJPCumulativeEnergy._last_end: None or a str
  data,         \* coordinator.data: None or the snapshot of the last refresh
  added,        \* whether async_added_to_hass has run on this entity object
  last_state,   \* what the host holds as the entity's last state: None or [state, attributes]
  op,           \* the operation that made the last step
  pre,          \* total and last_end as they were before the last update tick
  nticks,       \* update ticks run since the last refresh of coordinator.data
  restored,     \* None, or what the last activation restored, until the second tick after it
  ticks,        \* update ticks run so far
  restarts,     \* restarts of the host so far
  hist,         \* the end-markers that have contributed to total since the activation
  shadow,       \* total and last_end of the same ticks run with no restart
  upstream,     \* the raw reading records the upstream returns to the readings query
  hh_out,       \* None or the list async_get_hh_readings returned
  snapshot,     \* None or the snapshot async_get_dashboard returned
  response,     \* the response _post has received: HTTP status and body
  post_out,     \* None or what _post did with the response: a return or a raise
  access_token, \* OEJPApi._access_token: None or the token of the last login
  access_exp,   \* OEJPApi._access_exp: None or the minute the token expires
  account_number, \* OEJPApi._account_number: None or the account number
  now,          \* the clock, in minutes
  task,         \* the refresh cycles: where each is suspended and what it has done
  cycles,       \* refresh cycles started so far
  reauth,       \* an authenticated request got OEJPAuthError and no login was sent since
  ensured,      \* _ensure_auth has returned and neither the clock nor the session changed since
  today,        \* the JST date of now_jst in async_get_dashboard
  range_up,     \* the raw reading records the upstream returns for the range window
  dashboard,    \* None or the whole snapshot async_get_dashboard returned
  hh_data,      \* the data record _post returned to the readings query
  hh_result,    \* None or what async_get_hh_readings did with it: a return or a raise
  value_text,   \* the value of a reading record as the response text writes it
  parsed        \* None or the Decimal that HHReading.value holds for it

accVars ==
  <<total, last_end, data, added, last_state, op, pre, nticks, restored, ticks, restarts,
    hist, shadow>>
fetchVars == <<upstream, hh_out, snapshot>>
postVars == <<response, post_out>>
apiVars == <<access_token, access_exp, account_number, now, task, cycles, reauth, ensured>>
dashVars == <<today, range_up, dashboard>>
shapeVars == <<hh_data, hh_result>>
valueVars == <<value_text, parsed>>
vars == <<accVars, fetchVars, postVars, apiVars, dashVars, shapeVars, valueVars>>

None == <<>>
Some(v) == <<v>>
IsNone(o) == o = <<>>
Val(o) == o[1]

----------------------------------------------------------------------------
(* Bounds of the model. *)

\* raw timestamps range over the half-hour slots 0..MaxSlot after 2024-01-01T00:00+09:00
MaxSlot == 2
\* the upstream returns at most MaxLen reading records to one query
MaxLen == 2
\* the accumulator takes at most MaxTicks update ticks in one run
MaxTicks == 2
\* the host restarts at most MaxRestarts times in one run
MaxRestarts == 1
\* the errors list of a response body holds at most MaxErrors messages
MaxErrors == 1
\* the clock runs from 0 to MaxNow
MaxNow == 3
\* at most MaxCycles refresh cycles start in one run
MaxCycles == 2
\* the text of a value has at most MaxDecimals digits after the point
MaxDecimals == 4

----------------------------------------------------------------------------
(* Strings and timestamps. *)

\* Python's str comparison a > b: by code point, a proper prefix is smaller
RECURSIVE StrGreater(_, _)
StrGreater(a, b) ==
  IF a = <<>> THEN FALSE
  ELSE IF b = <<>> THEN TRUE
  ELSE IF Head(a) # Head(b) THEN Head(a) > Head(b)
  ELSE StrGreater(Tail(a), Tail(b))

\* half-hours per day, and the offset of JST (UTC+9) in half-hours
HalfHoursPerDay == 48
JstOffset == 18

\* the UTC offset, in half-hours, that _parse_dt gives a timestamp text:
\* a trailing "Z" is "+00:00", no offset at all is UTC
OffsetOf(off) ==
  CASE off = "+09:00" -> JstOffset
    [] off = "Z"      -> 0
    [] off = "naive"  -> 0

\* _parse_dt: the instant of a timestamp text [wall, off], wall being the
\* half-hours since 2023-12-31T00:00 that the text's date and time spell
ParseDt(s) == s.wall - OffsetOf(s.off)

\* the date digits of isoformat() for day d after 2023-12-31
DateDigits(d) ==
  CASE d = 0 -> <<2, 0, 2, 3, 1, 2, 3, 1>>
    [] d = 1 -> <<2, 0, 2, 4, 0, 1, 0, 1>>
    [] d = 2 -> <<2, 0, 2, 4, 0, 1, 0, 2>>

\* dt.astimezone(JST).isoformat(): date, hour and minute digits of the JST
\* wall clock (the seconds and the "+09:00" suffix are the same in every text)
IsoJst(instant) ==
  LET local == instant + JstOffset
      d == local \div HalfHoursPerDay
      hh == (local % HalfHoursPerDay) \div 2
      mm == (local % 2) * 30
  IN DateDigits(d) \o <<hh \div 10, hh % 10, mm \div 10, mm % 10>>

----------------------------------------------------------------------------
(* Reading retrieval: async_get_hh_readings and the recent list of        *)
(* async_get_dashboard.                                                    *)

\* the record the loop of async_get_hh_readings builds from a raw record
HHReading(r) ==
  [start_at |-> ParseDt(r.startAt), end_at |-> ParseDt(r.endAt), value |-> r.value]

RECURSIVE ParseAll(_)
ParseAll(raw) ==
  IF raw = <<>> THEN <<>> ELSE <<HHReading(Head(raw))>> \o ParseAll(Tail(raw))

\* list.sort(key=lambda x: x.start_at): a stable sort, here by insertion of
\* each element, from the left, behind the elements whose key is not greater
RECURSIVE InsertByStart(_, _)
InsertByStart(x, s) ==
  IF s = <<>> THEN <<x>>
  ELSE IF x.start_at < Head(s).start_at THEN <<x>> \o s
  ELSE <<Head(s)>> \o InsertByStart(x, Tail(s))

RECURSIVE SortByStart(_)
SortByStart(s) ==
  IF s = <<>> THEN <<>>
  ELSE InsertByStart(s[Len(s)], SortByStart(SubSeq(s, 1, Len(s) - 1)))

\* the list left as the upstream ordered it
SortReadingsOmitted(readings) == readings

\* readings.sort(key=lambda x: x.start_at)
SortReadings(readings) == SortByStart(readings)

\* async_get_hh_readings on a well-shaped response carrying the raw records
AsyncGetHHReadings(raw) == SortReadings(ParseAll(raw))

\* JSON values of the readings response: a key that is missing, null, a
\* list, or an object, of which v is the value of the one key the code reads
Missing == [t |-> "missing", v |-> <<>>]
Null == [t |-> "null", v |-> <<>>]
List(items) == [t |-> "list", v |-> items]
Obj(value) == [t |-> "obj", v |-> value]

\* the try block of async_get_hh_readings, account being data's "account":
\* subscripting a missing key raises KeyError, subscripting null TypeError
NavigateShape(account) ==
  IF account.t = "missing" THEN [kind |-> "KeyError", raw |-> <<>>]
  ELSE IF account.t = "null" THEN [kind |-> "TypeError", raw |-> <<>>]
  ELSE LET props == account.v
       IN IF props.t = "missing" THEN [kind |-> "KeyError", raw |-> <<>>]
          ELSE IF props.t = "null" \/ props.v = <<>>
          THEN [kind |-> "OEJPApiError", raw |-> <<>>]
          ELSE LET esp == props.v[1].v
               IN IF esp.t = "missing" THEN [kind |-> "KeyError", raw |-> <<>>]
                  ELSE IF esp.t = "null" \/ esp.v = <<>>
                  THEN [kind |-> "OEJPApiError", raw |-> <<>>]
                  ELSE LET hhr == esp.v[1].v
                       IN IF hhr.t = "missing" THEN [kind |-> "KeyError", raw |-> <<>>]
                          ELSE IF hhr.t = "null" THEN [kind |-> "raw", raw |-> <<>>]
                          ELSE [kind |-> "raw", raw |-> hhr.v]

\* except KeyError: raise OEJPApiError
ExceptKeyError(outcome) ==
  IF outcome.kind = "KeyError" THEN [outcome EXCEPT !.kind = "OEJPApiError"] ELSE outcome

\* async_get_hh_readings from the data record on: the list it returns or
\* the exception that leaves it
ReadingsOf(account) ==
  LET nav == ExceptKeyError(NavigateShape(account))
  IN IF nav.kind = "raw"
     THEN [kind |-> "return", readings |-> AsyncGetHHReadings(nav.raw)]
     ELSE [kind |-> nav.kind, readings |-> <<>>]

\* the loop that builds recent_compact
RECURSIVE RecentCompact(_)
RecentCompact(readings) ==
  IF readings = <<>> THEN <<>>
  ELSE <<[end_jst |-> IsoJst(Head(readings).end_at), kwh |-> Head(readings).value]>>
       \o RecentCompact(Tail(readings))

\* the recent part of the snapshot async_get_dashboard returns
AsyncGetDashboard(recentRaw) ==
  LET recent == AsyncGetHHReadings(recentRaw)
  IN [ last_half_hour_kwh |->
         IF recent # <<>> THEN Some(recent[Len(recent)].value) ELSE None,
       last_interval_end_jst |->
         IF recent # <<>> THEN Some(IsoJst(recent[Len(recent)].end_at)) ELSE None,
       recent_readings |-> RecentCompact(recent) ]

\* what the upstream may return: records in any order, start and end at any
\* slot, written with an explicit offset, with a "Z" or with no offset
Formats == {"+09:00", "Z", "naive"}
RawTime(slot, off) == [wall |-> HalfHoursPerDay + slot - (JstOffset - OffsetOf(off)), off |-> off]
RawReading(s, e, f, v) == [startAt |-> RawTime(s, f), endAt |-> RawTime(e, f), value |-> v]
Values == {3, 4}
RawReadings ==
  { RawReading(s, e, f, v) : s \in 0..MaxSlot, e \in 0..MaxSlot, f \in Formats, v \in Values }
RawLists == UNION { [1..n -> RawReadings] : n \in 0..MaxLen }

----------------------------------------------------------------------------
(* The value of a reading: json.loads on the response text, then           *)
(* Decimal(str(value)).  A natural number is the sequence of its decimal   *)
(* digits, most significant first, zero being the empty sequence; a        *)
(* decimal is [digits, scale], standing for digits / 10^scale; a float is  *)
(* [m, s], standing for m / 2^s with 2^52 <= m < 2^53 (binary64).          *)

RECURSIVE Strip(_)
Strip(a) == IF a # <<>> /\ Head(a) = 0 THEN Strip(Tail(a)) ELSE a

Zeros(k) == [i \in 1..k |-> 0]

\* 2 * a: the carry into a digit is 1 exactly when the next digit is 5 or more
Times2(a) ==
  (IF a # <<>> /\ a[1] >= 5 THEN <<1>> ELSE <<>>)
    \o [i \in 1..Len(a) |->
          (2 * a[i] + (IF i < Len(a) /\ a[i + 1] >= 5 THEN 1 ELSE 0)) % 10]
Times256(a) == Times2(Times2(Times2(Times2(Times2(Times2(Times2(Times2(a))))))))

\* 5 * a, as half of 10 * a: a digit takes 10 from an odd digit before it
Times5(a) ==
  Strip(<<>> \o [i \in 1..Len(a) + 1 |->
          ((IF i <= Len(a) THEN a[i] ELSE 0)
             + (IF i > 1 /\ a[i - 1] % 2 = 1 THEN 10 ELSE 0)) \div 2])
Times5Pow8(a) == Times5(Times5(Times5(Times5(Times5(Times5(Times5(Times5(a))))))))

\* a + 1
RECURSIVE AddOne(_)
AddOne(a) ==
  IF a = <<>> THEN <<1>>
  ELSE IF a[Len(a)] < 9 THEN SubSeq(a, 1, Len(a) - 1) \o <<a[Len(a)] + 1>>
  ELSE AddOne(SubSeq(a, 1, Len(a) - 1)) \o <<0>>

\* a >= b for digit sequences of the same length
LexGE(a, b) ==
  \/ a = b
  \/ \E i \in 1..Len(a) : a[i] > b[i] /\ \A j \in 1..(i - 1) : a[j] = b[j]
\* a >= b, neither with leading zeros
DigitsGE(a, b) == Len(a) > Len(b) \/ (Len(a) = Len(b) /\ LexGE(a, b))

\* 2^52 and 2^53: the significand of a binary64 float has 53 bits
Two52 == <<4, 5, 0, 3, 5, 9, 9, 6, 2, 7, 3, 7, 0, 4, 9, 6>>
Two53 == <<9, 0, 0, 7, 1, 9, 9, 2, 5, 4, 7, 4, 0, 9, 9, 2>>

\* digits with the last k removed, rounded half to even on what was removed
RoundOff(a, k) ==
  IF k = 0 THEN a
  ELSE IF Len(a) < k THEN <<>>
  ELSE LET q == SubSeq(a, 1, Len(a) - k)
           r == SubSeq(a, Len(a) - k + 1, Len(a))
           half == <<5>> \o Zeros(k - 1)
           up == IF r = half THEN q # <<>> /\ q[Len(q)] % 2 = 1
                 ELSE LexGE(r, half)
       IN IF up THEN AddOne(q) ELSE q

\* n * 2^s for the least s that makes it at least 2^52 * 10^k
RECURSIVE ScaleUp(_, _, _)
ScaleUp(n, k, s) ==
  IF DigitsGE(n, Two52 \o Zeros(k)) THEN [n |-> n, s |-> s]
  ELSE IF ~DigitsGE(Times256(n), Two52 \o Zeros(k)) THEN ScaleUp(Times256(n), k, s + 8)
  ELSE ScaleUp(Times2(n), k, s + 1)

\* float("n / 10^k"): the binary64 float nearest to the decimal, ties to
\* even, for 0 < n / 10^k < 2^53
ToDouble(n, k) ==
  LET sc == ScaleUp(n, k, 0)
      m == RoundOff(sc.n, k)
  IN IF m = Two53 THEN [m |-> Two52, s |-> sc.s - 1] ELSE [m |-> m, s |-> sc.s]

\* m * 5^s: the digits of m / 2^s, which is m * 5^s / 10^s
RECURSIVE MulPow5(_, _)
MulPow5(m, s) ==
  IF s = 0 \/ m = <<>> THEN m
  ELSE IF s >= 8 THEN MulPow5(Times5Pow8(m), s - 8)
  ELSE MulPow5(Times5(m), s - 1)

\* the decimal of p significant digits nearest to x / 10^s
RoundSig(x, s, p) ==
  LET dropped == IF Len(x) > p THEN Len(x) - p ELSE 0
      d == RoundOff(x, dropped)
  IN IF dropped >= s THEN [digits |-> d \o Zeros(dropped - s), scale |-> 0]
     ELSE [digits |-> d, scale |-> s - dropped]

\* repr(f): the decimal of fewest significant digits that float() reads
\* back as f
RECURSIVE ShortestFrom(_, _, _)
ShortestFrom(f, x, p) ==
  LET c == RoundSig(x, f.s, p)
  IN IF p >= 17 \/ ToDouble(c.digits, c.scale) = f THEN c
     ELSE ShortestFrom(f, x, p + 1)
FloatRepr(f) == ShortestFrom(f, MulPow5(f.m, f.s), 1)

\* json.loads on the text of a value: a JSON string stays the text, a JSON
\* number without a fraction becomes an int, one with a fraction a float;
\* then str() and Decimal()
ParseValue(text) ==
  IF text.form = "string" \/ text.scale = 0 \/ Strip(text.digits) = <<>>
  THEN [digits |-> Strip(text.digits), scale |-> text.scale]
  ELSE FloatRepr(ToDouble(Strip(text.digits), text.scale))

----------------------------------------------------------------------------
(* The calendar sums of async_get_dashboard.                               *)

\* a datetime.date
Date(y, m, d) == [year |-> y, month |-> m, day |-> d]

\* the days from 2023-12-31 to the day before the first of a month, for the
\* months of the model: December 2023 to March 2024
MonthOffset(y, m) ==
  CASE y = 2023 /\ m = 12 -> -31
    [] y = 2024 /\ m = 1  -> 0
    [] y = 2024 /\ m = 2  -> 31
    [] y = 2024 /\ m = 3  -> 60

\* _midnight_jst: the instant of 00:00:00 JST on date d
MidnightJst(d) == (MonthOffset(d.year, d.month) + d.day) * HalfHoursPerDay - JstOffset

\* _first_day_of_month
FirstDayOfMonth(d) == Date(d.year, d.month, 1)

\* _first_day_of_prev_month
FirstDayOfPrevMonth(d) ==
  IF d.month = 1 THEN Date(d.year - 1, 12, 1) ELSE Date(d.year, d.month - 1, 1)

\* the boundaries async_get_dashboard computes from today
Boundaries(d) ==
  [ today_mid        |-> MidnightJst(d),
    yday_mid         |-> MidnightJst(d) - HalfHoursPerDay,
    month_start      |-> MidnightJst(FirstDayOfMonth(d)),
    prev_month_start |-> MidnightJst(FirstDayOfPrevMonth(d)),
    prev_month_end   |-> MidnightJst(FirstDayOfMonth(d)) ]

\* st_jst >= today_mid
CountsTodayAfterMidnight(st, today_mid) == st > today_mid
CountsToday(st, today_mid) == st >= today_mid

\* st_jst >= yday_mid and st_jst < today_mid
CountsYesterday(st, yday_mid, today_mid) == st >= yday_mid /\ st < today_mid

\* st_jst >= month_start
CountsMonthToDate(st, month_start) == st >= month_start

\* st_jst >= prev_month_start and st_jst < prev_month_end
CountsLastMonthAfterStart(st, prev_month_start, prev_month_end) ==
  st > prev_month_start /\ st < prev_month_end
CountsLastMonth(st, prev_month_start, prev_month_end) ==
  st >= prev_month_start /\ st < prev_month_end

\* the four tests as one if/elif chain, in the order the sums are declared
AddToSumsOneChain(sums, r, b) ==
  LET st == r.start_at
  IN IF CountsToday(st, b.today_mid)
     THEN [sums EXCEPT !.today_kwh = @ + r.value]
     ELSE IF CountsYesterday(st, b.yday_mid, b.today_mid)
     THEN [sums EXCEPT !.yday_kwh = @ + r.value]
     ELSE IF CountsMonthToDate(st, b.month_start)
     THEN [sums EXCEPT !.mtd_kwh = @ + r.value]
     ELSE IF CountsLastMonth(st, b.prev_month_start, b.prev_month_end)
     THEN [sums EXCEPT !.last_month_kwh = @ + r.value]
     ELSE sums
\* the body of the loop over range_months: the sums after reading r
AddToSums(sums, r, b) ==
  LET st == r.start_at
      months ==
        IF CountsMonthToDate(st, b.month_start)
        THEN [sums EXCEPT !.mtd_kwh = @ + r.value]
        ELSE IF CountsLastMonth(st, b.prev_month_start, b.prev_month_end)
        THEN [sums EXCEPT !.last_month_kwh = @ + r.value]
        ELSE sums
  IN IF CountsToday(st, b.today_mid)
     THEN [months EXCEPT !.today_kwh = @ + r.value]
     ELSE IF CountsYesterday(st, b.yday_mid, b.today_mid)
     THEN [months EXCEPT !.yday_kwh = @ + r.value]
     ELSE months

\* the loop over range_months
RECURSIVE SumRange(_, _, _)
SumRange(readings, sums, b) ==
  IF readings = <<>> THEN sums
  ELSE SumRange(Tail(readings), AddToSums(sums, Head(readings), b), b)

\* the four sums as Decimal("0")
ZeroSums == [today_kwh |-> 0, yday_kwh |-> 0, mtd_kwh |-> 0, last_month_kwh |-> 0]

\* the snapshot with 0.0 for the last half hour when there is no recent reading
DashboardZeroLast(d, recentRaw, rangeRaw) ==
  LET part == AsyncGetDashboard(recentRaw)
      sums == SumRange(AsyncGetHHReadings(rangeRaw), ZeroSums, Boundaries(d))
  IN [ today_kwh             |-> sums.today_kwh,
       yesterday_kwh         |-> sums.yday_kwh,
       month_to_date_kwh     |-> sums.mtd_kwh,
       last_month_kwh        |-> sums.last_month_kwh,
       last_half_hour_kwh    |->
         IF IsNone(part.last_half_hour_kwh) THEN Some(0) ELSE part.last_half_hour_kwh,
       last_interval_end_jst |-> part.last_interval_end_jst,
       recent_readings       |-> part.recent_readings ]

\* the snapshot async_get_dashboard returns on date d when the recent window
\* returns recentRaw and the range window rangeRaw
Dashboard(d, recentRaw, rangeRaw) ==
  LET part == AsyncGetDashboard(recentRaw)
      sums == SumRange(AsyncGetHHReadings(rangeRaw), ZeroSums, Boundaries(d))
  IN [ today_kwh             |-> sums.today_kwh,
       yesterday_kwh         |-> sums.yday_kwh,
       month_to_date_kwh     |-> sums.mtd_kwh,
       last_month_kwh        |-> sums.last_month_kwh,
       last_half_hour_kwh    |-> part.last_half_hour_kwh,
       last_interval_end_jst |-> part.last_interval_end_jst,
       recent_readings       |-> part.recent_readings ]

\* the dates on which the snapshot is computed: the first and a later day
\* of a month, in January (the previous month lies in the previous year)
\* and in March (the previous month is February)
Dates == { Date(2024, 1, 1), Date(2024, 1, 2), Date(2024, 3, 1), Date(2024, 3, 2) }

\* the starts of the records the range window may return on date d: each
\* boundary, the instant before it and the instant after today's midnight
RangeStarts(d) ==
  LET b == Boundaries(d)
  IN UNION { {x - 1, x} : x \in {b.prev_month_start, b.month_start, b.yday_mid, b.today_mid} }
     \cup {b.today_mid + 1}

\* a raw record of the range window that starts at instant st
RangeReading(st, v) ==
  RawReading(st - (HalfHoursPerDay - JstOffset), st + 1 - (HalfHoursPerDay - JstOffset), "+09:00", v)

RangeLists(d) ==
  UNION { [1..n -> { RangeReading(st, v) : st \in RangeStarts(d), v \in Values }] : n \in 0..MaxLen }

\* what the recent window returns in the runs of the snapshot
RecentLists == { <<>>, <<RawReading(0, 1, "+09:00", 3)>> }

----------------------------------------------------------------------------
(* The cumulative-energy accumulator: OEJPCumulativeEnergy.               *)

\* the condition under which _apply_recent adds an item
ItemAppliesNotBefore(end_jst, le) == IsNone(le) \/ ~StrGreater(Val(le), end_jst)
ItemApplies(end_jst, le) == IsNone(le) \/ StrGreater(end_jst, Val(le))

\* the loop taking the marker of every item it scans, added or not
RECURSIVE ScanRecentMarkAll(_, _, _, _)
ScanRecentMarkAll(recent, tot, newLast, le) ==
  IF recent = <<>> THEN [total |-> Some(tot), last_end |-> newLast]
  ELSE LET item == Head(recent)
       IN IF ItemApplies(item.end_jst, le)
          THEN ScanRecentMarkAll(Tail(recent), tot + item.kwh, Some(item.end_jst), le)
          ELSE ScanRecentMarkAll(Tail(recent), tot, Some(item.end_jst), le)

\* the for loop of _apply_recent: tot is self._total, newLast is
\* new_last_end, le is self._last_end, which the loop does not assign
RECURSIVE ScanRecent(_, _, _, _)
ScanRecent(recent, tot, newLast, le) ==
  IF recent = <<>> THEN [total |-> Some(tot), last_end |-> newLast]
  ELSE LET item == Head(recent)
       IN IF ItemApplies(item.end_jst, le)
          THEN ScanRecent(Tail(recent), tot + item.kwh, Some(item.end_jst), le)
          ELSE ScanRecent(Tail(recent), tot, newLast, le)

\* _apply_recent: the new _total and _last_end
ApplyRecent(tot, le, d) ==
  LET recent == IF IsNone(d) THEN <<>> ELSE Val(d).recent_readings
      t0 == IF IsNone(tot) THEN 0 ELSE Val(tot)
  IN ScanRecent(recent, t0, le, le)

\* the state text the host stores for native_value: "unknown" for None,
\* else str() of the float, which float() reads back to the same number
StateText(tot) ==
  IF IsNone(tot) THEN [kind |-> "unknown", val |-> 0]
  ELSE [kind |-> "num", val |-> Val(tot)]

\* the part of extra_state_attributes that is restored
ExtraStateAttributes(le) == [last_interval_end_jst |-> le]

\* the total async_added_to_hass sets from the last state
RestoredTotal(last) ==
  IF ~IsNone(last) /\ Val(last).state.kind \notin {"none", "unknown", "unavailable"}
  THEN IF Val(last).state.kind = "num" THEN Val(last).state.val ELSE 0
  ELSE 0

\* the marker left as __init__ set it
RestoredLastEndSkipped(last, le) == le

\* the _last_end async_added_to_hass leaves, le being the one held before
RestoredLastEnd(last, le) ==
  IF ~IsNone(last) /\ ~IsNone(Val(last).attributes)
  THEN Val(Val(last).attributes).last_interval_end_jst
  ELSE le

\* the last states the host may hold when the integration first starts
InitialLastStates ==
  { None,
    Some([state |-> [kind |-> "num", val |-> 125],
          attributes |-> Some(ExtraStateAttributes(Some(IsoJst(31))))]),
    Some([state |-> [kind |-> "unknown", val |-> 0],
          attributes |-> Some(ExtraStateAttributes(None))]),
    Some([state |-> [kind |-> "junk", val |-> 0], attributes |-> None]),
    Some([state |-> [kind |-> "unavailable", val |-> 0],
          attributes |-> Some(ExtraStateAttributes(Some(IsoJst(32))))]) }

\* the records the upstream holds in the runs of the accumulator: the
\* readings of 00:00-00:30 (0.3 kWh) and 00:30-01:00 (0.4 kWh), a record of
\* the whole hour 00:00-01:00, and a second version of 00:30-01:00 with a
\* negative value
MeterReadings ==
  { RawReading(0, 1, "+09:00", 3), RawReading(1, 2, "+09:00", 4),
    RawReading(0, 2, "+09:00", 4), RawReading(1, 2, "+09:00", -3) }

\* the snapshots a refresh cycle may produce: the recent window returns at
\* most MaxLen of these records, in any order
Snapshots ==
  { AsyncGetDashboard(raw) : raw \in UNION { [1..n -> MeterReadings] : n \in 0..MaxLen } }

\* the halfHourlyReadings of a supply point: missing, null or a list of records
ShapeReadings ==
  {Missing, Null} \cup { List(raw) : raw \in UNION { [1..n -> MeterReadings] : n \in 0..MaxLen } }

\* electricitySupplyPoints: missing, null, empty, or one or two supply
\* points, the second without readings
ShapeSupplyPoints ==
  {Missing, Null, List(<<>>)}
  \cup { List(<<Obj(h)>>) : h \in ShapeReadings }
  \cup { List(<<Obj(h), Obj(Missing)>>) : h \in ShapeReadings }

\* properties: missing, null, empty, or one or two properties, the second
\* without supply points
ShapeProperties ==
  {Missing, Null, List(<<>>)}
  \cup { List(<<Obj(e)>>) : e \in ShapeSupplyPoints }
  \cup { List(<<Obj(e), Obj(Missing)>>) : e \in ShapeSupplyPoints }

\* account: missing, null or an object
ShapeAccounts == {Missing, Null} \cup { Obj(p) : p \in ShapeProperties }

\* the exceptions that leave async_get_hh_readings after _post has returned
ShapeFailures == { ReadingsOf(a).kind : a \in ShapeAccounts } \ {"return"}

NoPre == [total |-> None, last_end |-> None]

\* the refresh cycles that may overlap
Tasks == {1, 2}

\* a refresh cycle that has not started
IdleTask ==
  [pc |-> "idle", fetch |-> 0, req |-> None, result |-> "none", cause |-> "none",
   entry |-> [held |-> FALSE, near |-> FALSE, again |-> FALSE, resolved |-> FALSE],
   logins |-> 0, must |-> FALSE]

\* the variables of the other components, where a run does not use them
IdleApi ==
  /\ access_token = None
  /\ access_exp = None
  /\ account_number = None
  /\ now = 0
  /\ task = [t \in Tasks |-> IdleTask]
  /\ cycles = 0
  /\ reauth = FALSE
  /\ ensured = FALSE

IdlePost ==
  /\ response = [status |-> 200, body |-> [kind |-> "invalid", errors |-> None, data |-> "absent"]]
  /\ post_out = None

IdleFetch == upstream = <<>> /\ hh_out = None /\ snapshot = None

IdleDash == today = Date(2024, 1, 1) /\ range_up = <<>> /\ dashboard = None

IdleShape == hh_data = Missing /\ hh_result = None

IdleValue == value_text = [form |-> "string", digits |-> <<>>, scale |-> 0] /\ parsed = None

\* no contribution recorded, no run to compare with
NoHist == [seen |-> {}, twice |-> FALSE, ordered |-> TRUE]
NoShadow == [total |-> None, last_end |-> None, valid |-> FALSE]

\* the record of contributions after a tick on `recent` with marker le: the
\* items _apply_recent adds are those its condition holds for; a marker
\* contributes twice when it contributed in an earlier tick or two added
\* items carry it; the record is kept while every list is in
\* non-decreasing order of end-marker
Contributions(h, recent, le) ==
  LET Added(it) == ItemApplies(it.end_jst, le)
      items == SelectSeq(recent, Added)
      inOrder == \A i \in 1..(Len(recent) - 1) :
                   ~StrGreater(recent[i].end_jst, recent[i + 1].end_jst)
  IN IF ~(h.ordered /\ inOrder) THEN [seen |-> {}, twice |-> FALSE, ordered |-> FALSE]
     ELSE [ seen |-> h.seen \cup { items[i].end_jst : i \in 1..Len(items) },
            twice |-> \/ h.twice
                      \/ \E i \in 1..Len(items) : items[i].end_jst \in h.seen
                      \/ \E i, j \in 1..Len(items) :
                           i < j /\ items[i].end_jst = items[j].end_jst,
            ordered |-> TRUE ]

\* OEJPCumulativeEnergy.__init__, with a coordinator that holds no data yet
InitAcc ==
  /\ total = None
  /\ last_end = None
  /\ data = None
  /\ added = FALSE
  /\ last_state \in InitialLastStates
  /\ op = "init"
  /\ pre = NoPre
  /\ nticks = 0
  /\ restored = None
  /\ ticks = 0
  /\ restarts = 0
  /\ hist = NoHist
  /\ shadow = NoShadow
  /\ IdleFetch
  /\ IdlePost
  /\ IdleApi
  /\ IdleDash
  /\ IdleShape
  /\ IdleValue

\* async_added_to_hass
AddedToHass ==
  /\ ~added
  /\ added' = TRUE
  /\ total' = Some(RestoredTotal(last_state))
  /\ last_end' = RestoredLastEnd(last_state, last_end)
  /\ restored' = Some([total |-> Val(total'), last_end |-> last_end', ticked |-> FALSE])
  /\ op' = "added"
  /\ pre' = NoPre
  /\ hist' = NoHist
  /\ shadow' = IF restarts = 0
               THEN [total |-> total', last_end |-> last_end', valid |-> TRUE]
               ELSE shadow
  /\ UNCHANGED <<data, last_state, nticks, ticks, restarts, fetchVars, postVars, apiVars, dashVars, shapeVars, valueVars>>

\* a refresh cycle of the coordinator stores the snapshot of async_get_dashboard
\* (a refresh right after a refresh only overwrites the snapshot of the first,
\* so the two are one step here)
Refresh ==
  /\ added
  /\ op # "refresh"
  /\ \E snap \in Snapshots : data' = Some(snap)
  /\ nticks' = 0
  /\ op' = "refresh"
  /\ pre' = NoPre
  /\ UNCHANGED <<total, last_end, added, last_state, restored, ticks, restarts, hist, shadow,
                 fetchVars, postVars, apiVars, dashVars, shapeVars, valueVars>>

\* async_update: one update tick
AsyncUpdate ==
  /\ added
  /\ ticks < MaxTicks
  /\ LET r == ApplyRecent(total, last_end, data)
     IN /\ total' = r.total
        /\ last_end' = r.last_end
  /\ pre' = [total |-> total, last_end |-> last_end]
  /\ nticks' = nticks + 1
  /\ ticks' = ticks + 1
  /\ restored' = IF ~IsNone(restored) /\ ~Val(restored).ticked
                 THEN Some([Val(restored) EXCEPT !.ticked = TRUE])
                 ELSE None
  /\ op' = "tick"
  /\ hist' = Contributions(hist, IF IsNone(data) THEN <<>> ELSE Val(data).recent_readings,
                           last_end)
  /\ shadow' = IF shadow.valid
               THEN LET r == ApplyRecent(shadow.total, shadow.last_end, data)
                    IN [total |-> r.total, last_end |-> r.last_end, valid |-> TRUE]
               ELSE shadow
  /\ UNCHANGED <<data, added, last_state, restarts, fetchVars, postVars, apiVars, dashVars, shapeVars, valueVars>>

\* the host stores the entity's state and attributes
WriteState ==
  /\ added
  /\ restarts < MaxRestarts
  /\ last_state' = Some([state |-> StateText(total),
                         attributes |-> Some(ExtraStateAttributes(last_end))])
  /\ last_state' # last_state
  /\ op' = "write"
  /\ pre' = NoPre
  /\ UNCHANGED <<total, last_end, data, added, nticks, restored, ticks, restarts, hist, shadow,
                 fetchVars, postVars, apiVars, dashVars, shapeVars, valueVars>>

\* the host restarts: a new entity object and a new coordinator
Restart ==
  /\ added
  /\ restarts < MaxRestarts
  /\ restarts' = restarts + 1
  /\ total' = None
  /\ last_end' = None
  /\ data' = None
  /\ added' = FALSE
  /\ nticks' = 0
  /\ restored' = None
  /\ op' = "restart"
  /\ pre' = NoPre
  /\ hist' = NoHist
  /\ shadow' = IF last_state = Some([state |-> StateText(total),
                                     attributes |-> Some(ExtraStateAttributes(last_end))])
               THEN shadow
               ELSE NoShadow
  /\ UNCHANGED <<last_state, ticks, fetchVars, postVars, apiVars, dashVars, shapeVars, valueVars>>

IdleAcc ==
  /\ total = None
  /\ last_end = None
  /\ data = None
  /\ added = FALSE
  /\ last_state = None
  /\ op = "init"
  /\ pre = NoPre
  /\ nticks = 0
  /\ restored = None
  /\ ticks = 0
  /\ restarts = 0
  /\ hist = NoHist
  /\ shadow = NoShadow

NextAcc == AddedToHass \/ Refresh \/ AsyncUpdate \/ WriteState \/ Restart

SpecAcc == InitAcc /\ [][NextAcc]_vars

----------------------------------------------------------------------------
(* Properties of the accumulator. *)

RECURSIVE SumKwh(_)
SumKwh(items) == IF items = <<>> THEN 0 ELSE Head(items).kwh + SumKwh(Tail(items))

\* the items of a list whose end-marker is strictly greater than marker m
ItemsAfter(items, m) ==
  LET After(it) == StrGreater(it.end_jst, m) IN SelectSeq(items, After)

\* a list in non-decreasing order of end-marker
Ascending(items) ==
  \A i \in 1..(Len(items) - 1) : ~StrGreater(items[i].end_jst, items[i + 1].end_jst)

RecentOf(d) == IF IsNone(d) THEN <<>> ELSE Val(d).recent_readings

\* C1: an update tick never lowers total: after every tick, total is at
\* least what it was before the tick.
C1_TotalNeverDecreases ==
  op = "tick" => Val(total) >= Val(pre.total)

\* C2: a second update tick on the same recent-readings list changes
\* neither total nor last_applied_end: the readings are added once.
C2_SecondTickAddsNothing ==
  (op = "tick" /\ nticks >= 2) => (total = pre.total /\ last_end = pre.last_end)

\* C3: the first update tick after an activation that restored total T and
\* marker M, on an ascending list, leaves total = T + the values of the
\* items whose end-marker is strictly greater than M, and last_applied_end =
\* the end-marker of the last such item (M when there is none); from
\* T = 12.5, M = 00:30 and the items (00:30, 0.3), (01:00, 0.4) it leaves
\* total 12.9 and marker 01:00.
C3_RestartTick ==
  (op = "tick" /\ ~IsNone(restored) /\ ~IsNone(Val(restored).last_end)
     /\ Ascending(RecentOf(data)))
  => LET T == Val(restored).total
         M == Val(Val(restored).last_end)
         applied == ItemsAfter(RecentOf(data), M)
     IN /\ total = Some(T + SumKwh(applied))
        /\ last_end = IF applied = <<>> THEN Some(M)
                      ELSE Some(applied[Len(applied)].end_jst)
        /\ ( ( T = 125 /\ M = IsoJst(31)
               /\ RecentOf(data) = << [end_jst |-> IsoJst(31), kwh |-> 3],
                                      [end_jst |-> IsoJst(32), kwh |-> 4] >> )
             => (total = Some(129) /\ last_end = Some(IsoJst(32))) )

\* the example of C3 has happened: 12.5 and 00:30 restored, the tick has run
\* on the items (00:30, 0.3), (01:00, 0.4)
C3_Witness ==
  /\ op = "tick"
  /\ restored = Some([total |-> 125, last_end |-> Some(IsoJst(31)), ticked |-> TRUE])
  /\ RecentOf(data) = << [end_jst |-> IsoJst(31), kwh |-> 3],
                         [end_jst |-> IsoJst(32), kwh |-> 4] >>
  /\ total = Some(129)
  /\ last_end = Some(IsoJst(32))


\* C18: while every recent-readings list is in non-decreasing order of
\* end-marker, no end-marker contributes its value to total more than once,
\* whether the lists of successive ticks overlap or one list holds two
\* records with the same end-marker.
C18_NoDoubleCounting ==
  hist.ordered => ~hist.twice

\* the state is persisted when its text and attributes are what the host holds
Persisted ==
  last_state = Some([state |-> [kind |-> "num", val |-> Val(total)],
                     attributes |-> Some([last_interval_end_jst |-> last_end])])

\* C19: a run in which the state was persisted before the restart and
\* restored on activation has, after the activation and after every later
\* tick, the total and last_applied_end of the same ticks run with no
\* restart; an activation that finds no last state, or one whose state is
\* no number, sets total to zero.
C19_RestartTransparent ==
  /\ (added /\ shadow.valid) => (total = shadow.total /\ last_end = shadow.last_end)
  /\ (op = "added" /\ (IsNone(last_state) \/ Val(last_state).state.kind # "num"))
       => total = Some(0)

\* after ticks that added readings the state was persisted, the host
\* restarted, the entity was activated and ticked again on new readings
C19_Witness ==
  /\ restarts = 1
  /\ shadow.valid
  /\ op = "tick"
  /\ ~Persisted
  /\ total = shadow.total
  /\ Val(total) > Val(pre.total)
  /\ ~IsNone(last_state) /\ Val(last_state).state.kind = "num"
  /\ Val(last_state).state.val \notin {0, 125}

\* the items a tick adds, going by the marker held before the tick
AddedByTick ==
  IF IsNone(pre.last_end) THEN RecentOf(data) ELSE ItemsAfter(RecentOf(data), Val(pre.last_end))

\* C20: last_applied_end, once set, is never smaller in string order after
\* a tick than before it, whatever the order of the list; it changes only
\* in a tick that adds an item, and a tick that adds none leaves total and
\* last_applied_end as they were.
C20_MarkerNeverBackward ==
  op = "tick" =>
    /\ ~IsNone(pre.last_end) =>
         (~IsNone(last_end) /\ ~StrGreater(Val(pre.last_end), Val(last_end)))
    /\ last_end # pre.last_end => AddedByTick # <<>>
    /\ AddedByTick = <<>> => (total = pre.total /\ last_end = pre.last_end)

\* a tick on a list in descending order of end-marker, (01:00, 00:30), with
\* the marker at 00:30 before the tick, has moved the marker to 01:00
C20_Witness ==
  /\ op = "tick"
  /\ pre.last_end = Some(IsoJst(31))
  /\ Len(RecentOf(data)) = 2
  /\ RecentOf(data)[1].end_jst = IsoJst(32)
  /\ RecentOf(data)[2].end_jst = IsoJst(31)
  /\ last_end = Some(IsoJst(32))

----------------------------------------------------------------------------
(* The readings query and the snapshot, each applied to what the upstream  *)
(* returns.                                                                *)

InitFetch ==
  /\ upstream \in RawLists
  /\ hh_out = None
  /\ snapshot = None
  /\ IdleAcc
  /\ IdlePost
  /\ IdleApi
  /\ IdleDash
  /\ IdleShape
  /\ IdleValue

\* async_get_hh_readings returns
GetHHReadings ==
  /\ IsNone(hh_out)
  /\ hh_out' = Some(AsyncGetHHReadings(upstream))
  /\ UNCHANGED <<upstream, snapshot, accVars, postVars, apiVars, dashVars, shapeVars, valueVars>>

\* async_get_dashboard returns, the recent window holding the same records
GetDashboard ==
  /\ IsNone(snapshot)
  /\ snapshot' = Some(AsyncGetDashboard(upstream))
  /\ UNCHANGED <<upstream, hh_out, accVars, postVars, apiVars, dashVars, shapeVars, valueVars>>

NextFetch == GetHHReadings \/ GetDashboard

SpecFetch == InitFetch /\ [][NextFetch]_vars

\* how often x occurs in the list s
Occurrences(s, x) == Cardinality({ i \in 1..Len(s) : s[i] = x })

\* the records of the upstream, each parsed, in the upstream's order
ParsedUpstream == [i \in 1..Len(upstream) |-> HHReading(upstream[i])]

\* C9: the recent_readings list of every snapshot is in ascending order of
\* end time: no element's end_jst is earlier than the one before it.
C9_RecentAscendingByEnd ==
  ~IsNone(snapshot) => Ascending(Val(snapshot).recent_readings)

\* C10: the list async_get_hh_readings returns is a permutation of the
\* parsed records of the upstream, in ascending order of start time.
C10_FetchSortedPermutation ==
  ~IsNone(hh_out) =>
    LET out == Val(hh_out)
    IN /\ Len(out) = Len(ParsedUpstream)
       /\ \A i \in 1..Len(out) :
            Occurrences(out, out[i]) = Occurrences(ParsedUpstream, out[i])
       /\ \A i \in 1..(Len(out) - 1) : out[i].start_at <= out[i + 1].start_at

\* a list the upstream gave in descending order of start, the two records
\* written with different offsets, has been returned
C10_Witness ==
  /\ ~IsNone(hh_out)
  /\ Len(upstream) = 2
  /\ upstream[1].startAt.off # upstream[2].startAt.off
  /\ ParseDt(upstream[1].startAt) > ParseDt(upstream[2].startAt)
  /\ Val(hh_out)[1] = HHReading(upstream[2])
  /\ Val(hh_out)[2] = HHReading(upstream[1])

----------------------------------------------------------------------------
(* MeteringClient: what _post does with a received response.               *)

\* an HTTP status from which _post fails whatever the body says
HttpErrorStatus == 400

\* the substrings of str(errors) that make _post raise OEJPAuthError
AuthMarkers == {"Unauthorized", "UNAUTHENTICATED"}

\* the messages an errors list may hold
Messages == {"Unauthorized", "UNAUTHENTICATED", "unauthenticated", "Not found"}

\* a response body: text that is no JSON, JSON that is no object (an array,
\* a number, null), or an object whose errors is absent or a list of
\* messages and whose data is absent, null, a list or a record
Bodies ==
  { [kind |-> k, errors |-> None, data |-> "absent"] : k \in {"invalid", "array", "null"} }
  \cup { [kind |-> "object", errors |-> e, data |-> d] :
           e \in {None} \cup { Some(l) : l \in UNION { [1..n -> Messages] : n \in 0..MaxErrors } },
           d \in {"absent", "null", "list", "record"} }

Statuses == {200, 399, 400, 500}
Responses == [status : Statuses, body : Bodies]

Raise(exc, msg) == [kind |-> exc, detail |-> msg]
Return(d) == [kind |-> "data", detail |-> d]

\* body.get("errors") is truthy: a list that is not empty
HasErrors(body) == ~IsNone(body.errors) /\ Val(body.errors) # <<>>

\* "Unauthorized" in msg or "UNAUTHENTICATED" in msg, msg being str(errors)
IsAuthMessage(body) ==
  \E i \in 1..Len(Val(body.errors)) : Val(body.errors)[i] \in AuthMarkers

\* _post from the response on (src/api.py:135-161); body.get on JSON that
\* is no object raises AttributeError
Post(resp) ==
  LET body == resp.body
  IN IF body.kind = "invalid" THEN Raise("OEJPApiError", "Invalid JSON")
     ELSE IF body.kind # "object" THEN Raise("AttributeError", "get")
     ELSE IF resp.status >= HttpErrorStatus
     THEN IF HasErrors(body) THEN Raise("OEJPApiError", "HTTP status GraphQL errors")
          ELSE Raise("OEJPApiError", "HTTP status")
     ELSE IF HasErrors(body)
     THEN IF IsAuthMessage(body) THEN Raise("OEJPAuthError", "errors")
          ELSE Raise("OEJPApiError", "errors")
     ELSE IF body.data # "record" THEN Raise("OEJPApiError", "Missing data")
     ELSE Return("record")

InitPost ==
  /\ response \in Responses
  /\ post_out = None
  /\ IdleAcc
  /\ IdleFetch
  /\ IdleApi
  /\ IdleDash
  /\ IdleShape
  /\ IdleValue

\* _post handles the response it received
HandleResponse ==
  /\ IsNone(post_out)
  /\ post_out' = Some(Post(response))
  /\ UNCHANGED <<response, accVars, fetchVars, apiVars, dashVars, shapeVars, valueVars>>

NextPost == HandleResponse

SpecPost == InitPost /\ [][NextPost]_vars

\* the outcome the classification rules give a response, taken in order
ClassifiedAs(resp) ==
  IF resp.body.kind = "invalid" THEN "ProtocolError"
  ELSE IF resp.status >= 400 THEN "ProtocolError"
  ELSE IF ~IsNone(resp.body.errors) /\ Len(Val(resp.body.errors)) > 0
  THEN IF \E i \in 1..Len(Val(resp.body.errors)) :
            Val(resp.body.errors)[i] \in {"Unauthorized", "UNAUTHENTICATED"}
       THEN "AuthError" ELSE "ProtocolError"
  ELSE IF resp.body.kind # "object" \/ resp.body.data # "record" THEN "ProtocolError"
  ELSE "data"

\* the outcome of _post in the words of the rules
OutcomeName(out) ==
  CASE out.kind = "data" -> "data"
    [] out.kind = "OEJPApiError" -> "ProtocolError"
    [] out.kind = "OEJPAuthError" -> "AuthError"
    [] OTHER -> "other failure"

\* C8: _post gives every response the one outcome the rules give it, taken
\* in order (no JSON, status >= 400, errors, data), and fails with nothing
\* but ProtocolError or AuthError.
C8_PostClassification ==
  ~IsNone(post_out) =>
    /\ OutcomeName(Val(post_out)) = ClassifiedAs(response)
    /\ OutcomeName(Val(post_out)) \in {"data", "ProtocolError", "AuthError"}

----------------------------------------------------------------------------
(* AuthSession: _login, _ensure_auth, _load_account_number and the two     *)
(* readings queries of async_get_dashboard, as refresh cycles that suspend *)
(* at every request and resume at its response.                            *)

\* timedelta(minutes=2) of _ensure_auth
RefreshMargin == 2

\* the minutes a token the upstream issues has left when it is issued
TokenLifetimes == {1, 3}

\* the tokens a login at minute m may return: an opaque string, or a JWT
\* whose payload carries exp
TokensAt(m) ==
  {[form |-> "opaque", exp |-> 0]} \cup { [form |-> "jwt", exp |-> m + l] : l \in TokenLifetimes }

\* _jwt_exp: None unless the token decodes to a payload with a numeric exp
JwtExp(tok) == IF tok.form = "jwt" THEN Some(tok.exp) ELSE None

\* the empty string as a token
EmptyToken == [form |-> "empty", exp |-> 0]

\* data.get("obtainKrakenToken") of a login response at minute m: missing
\* or null, an object whose token is missing or null, one whose token is
\* the empty string, one with a token
LoginObjects(m) ==
  {[present |-> FALSE, token |-> None], [present |-> TRUE, token |-> None],
   [present |-> TRUE, token |-> Some(EmptyToken)]}
    \cup { [present |-> TRUE, token |-> Some(tok)] : tok \in TokensAt(m) }

\* the token is stored before it is tested
LoginStoresFirst(obj, token, exp) ==
  IF ~obj.present THEN [raised |-> TRUE, token |-> token, exp |-> exp]
  ELSE IF IsNone(obj.token) \/ Val(obj.token) = EmptyToken
  THEN [raised |-> TRUE, token |-> obj.token, exp |-> exp]
  ELSE [raised |-> FALSE, token |-> obj.token, exp |-> JwtExp(Val(obj.token))]
\* _login from the response data on: OEJPAuthError when the object or its
\* token is missing or empty, before anything is stored; otherwise the
\* token and the expiry it carries are stored, one after the other
Login(obj, token, exp) ==
  IF ~obj.present \/ IsNone(obj.token) \/ Val(obj.token) = EmptyToken
  THEN [raised |-> TRUE, token |-> token, exp |-> exp]
  ELSE [raised |-> FALSE, token |-> obj.token, exp |-> JwtExp(Val(obj.token))]

\* now + timedelta(minutes=2) >= self._access_exp
NearExpiryStrict(exp, m) == m + RefreshMargin > Val(exp)
NearExpiry(exp, m) == m + RefreshMargin >= Val(exp)

\* _ensure_auth from "if not self._account_number" on: the request it sends
AfterExpiryCheck(acct) == IF IsNone(acct) THEN "accounts" ELSE "hh"

\* _ensure_auth from "if self._access_exp" on
AfterTokenCheck(exp, acct, m) ==
  IF ~IsNone(exp) /\ NearExpiry(exp, m) THEN "login2" ELSE AfterExpiryCheck(acct)

\* _ensure_auth from its start: the first request the call sends, login1
\* being the login of "if not self._access_token", login2 that of the
\* expiry check, accounts the query of _load_account_number, hh the
\* readings query that follows _ensure_auth in async_get_hh_readings
EnsureAuth(tok, exp, acct, m) ==
  IF IsNone(tok) THEN "login1" ELSE AfterTokenCheck(exp, acct, m)

\* the kinds of outcome _post has
PostKinds == { Post(r).kind : r \in Responses }

\* a cycle sends the request `next` and suspends: a login carries the
\* credentials, the other requests the token held at that moment
Suspend(tsk, next, tok, exp, m) ==
  IF next \in {"login1", "login2"}
  THEN [tsk EXCEPT !.pc = next, !.req = None, !.logins = @ + 1, !.must = FALSE]
  ELSE [tsk EXCEPT !.pc = next, !.req = Some([auth |-> tok, exp |-> exp, sent_at |-> m])]

\* whether request `next` is a login
IsLogin(next) == next \in {"login1", "login2"}

\* an exception leaves async_get_dashboard; _async_update_data raises
\* UpdateFailed from it
Fail(tsk, exc) ==
  [tsk EXCEPT !.pc = "failed", !.req = None, !.result = "UpdateFailed", !.cause = exc]

\* whether a call of _ensure_auth has just returned: it returns when the
\* readings query is the next request; a request that is not sent leaves
\* the session as it was, a response that changes the session ends `old`
Ensured(next, changed, old) == next = "hh" \/ (old /\ ~changed)

\* what a call of _ensure_auth finds when it starts
Entry(tok, exp, acct, m, last) ==
  [held |-> tok # None,
   near |-> exp # None /\ m + 2 >= exp[1],
   again |-> last,
   resolved |-> acct # None]

\* the number of the account the upstream lists first
AccountNumbers == {"A-1"}

\* OEJPApi.__init__
InitApi ==
  /\ IdleApi
  /\ IdleAcc
  /\ IdleFetch
  /\ IdlePost
  /\ IdleDash
  /\ IdleShape
  /\ IdleValue

\* _async_update_data calls async_get_dashboard, which calls
\* async_get_hh_readings for the recent window, which calls _ensure_auth
Begin(t) ==
  /\ task[t].pc \in {"idle", "done", "failed"}
  /\ cycles < MaxCycles
  /\ cycles' = cycles + 1
  /\ LET next == EnsureAuth(access_token, access_exp, account_number, now)
         fresh == [IdleTask EXCEPT
                     !.fetch = 1,
                     !.entry = Entry(access_token, access_exp, account_number, now, ensured),
                     !.must = reauth]
     IN /\ task' = [task EXCEPT ![t] = Suspend(fresh, next, access_token, access_exp, now)]
        /\ reauth' = (reauth /\ ~IsLogin(next))
        /\ ensured' = Ensured(next, FALSE, ensured)
  /\ UNCHANGED <<access_token, access_exp, account_number, now, accVars, fetchVars, postVars, dashVars, shapeVars, valueVars>>

\* the response to a login request arrives: the rest of _login, then
\* _ensure_auth goes on
LoginResponse(t) ==
  /\ task[t].pc \in {"login1", "login2"}
  /\ \E kind \in PostKinds :
       \/ /\ kind # "data"
          /\ task' = [task EXCEPT ![t] = Fail(@, kind)]
          /\ UNCHANGED <<access_token, access_exp, reauth, ensured>>
       \/ /\ kind = "data"
          /\ \E obj \in LoginObjects(now) :
               LET out == Login(obj, access_token, access_exp)
               IN /\ access_token' = out.token
                  /\ access_exp' = out.exp
                  /\ \/ /\ out.raised
                        /\ task' = [task EXCEPT ![t] = Fail(@, "OEJPAuthError")]
                        /\ UNCHANGED <<reauth, ensured>>
                     \/ /\ ~out.raised
                              /\ LET next == IF task[t].pc = "login1"
                                       THEN AfterTokenCheck(access_exp', account_number, now)
                                       ELSE AfterExpiryCheck(account_number)
                           IN /\ task' = [task EXCEPT
                                            ![t] = Suspend(@, next, access_token', access_exp', now)]
                              /\ reauth' = (reauth /\ ~IsLogin(next))
                              /\ ensured' = Ensured(next, access_token' # access_token, ensured)
  /\ UNCHANGED <<account_number, now, cycles, accVars, fetchVars, postVars, dashVars, shapeVars, valueVars>>

\* the response to the account query arrives: the rest of
\* _load_account_number, then the readings query is sent
AccountsResponse(t) ==
  /\ task[t].pc = "accounts"
  /\ \E kind \in PostKinds :
       \/ /\ kind # "data"
          /\ task' = [task EXCEPT ![t] = Fail(@, kind)]
          /\ reauth' = (reauth \/ kind = "OEJPAuthError")
          /\ UNCHANGED <<account_number, ensured>>
       \/ /\ kind = "data"
          /\ \/ \* the list of accounts is missing or empty
                /\ task' = [task EXCEPT ![t] = Fail(@, "OEJPAuthError")]
                /\ UNCHANGED <<account_number, reauth, ensured>>
             \/ \* the first account has no number: None is assigned, then the raise
                /\ task' = [task EXCEPT ![t] = Fail(@, "OEJPAuthError")]
                /\ account_number' = None
                /\ ensured' = Ensured("failed", account_number' # account_number, ensured)
                /\ UNCHANGED reauth
             \/ \E number \in AccountNumbers :
                  /\ account_number' = Some(number)
                  /\ task' = [task EXCEPT
                                ![t] = Suspend(@, "hh", access_token, access_exp, now)]
                  /\ ensured' = Ensured("hh", account_number' # account_number, ensured)
                  /\ UNCHANGED reauth
  /\ UNCHANGED <<access_token, access_exp, now, cycles, accVars, fetchVars, postVars, dashVars, shapeVars, valueVars>>

\* the response to a readings query arrives: the rest of
\* async_get_hh_readings; after the recent window async_get_dashboard calls
\* it for the range window, after the range window it returns
HHResponse(t) ==
  /\ task[t].pc = "hh"
  /\ \E kind \in PostKinds :
       \/ /\ kind # "data"
          /\ task' = [task EXCEPT ![t] = Fail(@, kind)]
          /\ reauth' = (reauth \/ kind = "OEJPAuthError")
          /\ UNCHANGED ensured
       \/ /\ kind = "data"
          /\ \/ \* the response has not the expected shape
                /\ \E exc \in ShapeFailures : task' = [task EXCEPT ![t] = Fail(@, exc)]
                /\ UNCHANGED <<reauth, ensured>>
             \/ /\ task[t].fetch = 1
                /\ LET next == EnsureAuth(access_token, access_exp, account_number, now)
                       second == [task[t] EXCEPT
                                    !.fetch = 2,
                                    !.entry = Entry(access_token, access_exp,
                                                    account_number, now, ensured),
                                    !.logins = 0]
                   IN /\ task' = [task EXCEPT
                                    ![t] = Suspend(second, next, access_token, access_exp, now)]
                      /\ reauth' = (reauth /\ ~IsLogin(next))
                      /\ ensured' = Ensured(next, FALSE, ensured)
             \/ /\ task[t].fetch = 2
                /\ task' = [task EXCEPT ![t].pc = "done", ![t].req = None, ![t].result = "ok"]
                /\ UNCHANGED <<reauth, ensured>>
  /\ UNCHANGED <<access_token, access_exp, account_number, now, cycles,
                 accVars, fetchVars, postVars, dashVars, shapeVars, valueVars>>

\* a minute passes
ClockTick ==
  /\ now < MaxNow
  /\ now' = now + 1
  /\ ensured' = FALSE
  /\ UNCHANGED <<access_token, access_exp, account_number, task, cycles, reauth,
                 accVars, fetchVars, postVars, dashVars, shapeVars, valueVars>>

NextApi ==
  \/ \E t \in Tasks : Begin(t)
  \/ \E t \in Tasks : LoginResponse(t)
  \/ \E t \in Tasks : AccountsResponse(t)
  \/ \E t \in Tasks : HHResponse(t)
  \/ ClockTick

SpecApi == InitApi /\ [][NextApi]_vars

----------------------------------------------------------------------------
(* Properties of the session. *)

LoginsInFlight == { t \in Tasks : task[t].pc \in {"login1", "login2"} }

\* C4: overlapping refresh cycles never have two login requests under way:
\* a cycle that needs a login while another cycle's login is in flight
\* waits for it and sends none of its own.
C4_SingleFlightLogin ==
  Cardinality(LoginsInFlight) <= 1

\* C5: a call of _ensure_auth that starts with a token whose known expiry E
\* has now + 2 minutes >= E sends exactly one login request, and sends it
\* before any authenticated request of the call; a call that starts with a
\* token whose expiry is unknown or has now + 2 minutes < E sends no login
\* request.
C5_ProactiveRefresh ==
  \A t \in Tasks :
    task[t].pc # "idle" =>
      /\ (task[t].entry.held /\ task[t].entry.near) => task[t].logins = 1
      /\ (task[t].entry.held /\ ~task[t].entry.near) => task[t].logins = 0

\* a call that started at exactly 2 minutes before the expiry of the token
\* it held has sent its login and, after it, the readings query
C5_Witness ==
  \E t \in Tasks :
    /\ task[t].entry.held /\ task[t].entry.near
    /\ task[t].logins = 1
    /\ task[t].pc = "hh"
    /\ access_exp # None

\* C6: every authenticated request is sent with a token, and with one whose
\* expiry, when known, lies in the future at the moment of sending.
C6_ValidTokenAtSend ==
  \A t \in Tasks :
    ~IsNone(task[t].req) =>
      LET r == Val(task[t].req)
      IN /\ ~IsNone(r.auth)
         /\ ~IsNone(r.exp) => Val(r.exp) > r.sent_at

\* C7: a refresh cycle that starts after an authenticated request failed
\* with AuthError sends a login before any authenticated request, and every
\* failed cycle reaches the host as a failure that names its cause.
C7_ReloginAfterAuthError ==
  \A t \in Tasks :
    /\ task[t].must => IsNone(task[t].req)
    /\ task[t].pc = "failed" => (task[t].result = "UpdateFailed" /\ task[t].cause # "none")


\* C15: a call of _ensure_auth that starts in the session state and at the
\* minute in which a call of _ensure_auth has returned sends no login
\* request and no account query, whatever token the login had returned,
\* and so leaves token, expiry and account number as they are.
C15_EnsureAuthIdempotent ==
  \A t \in Tasks :
    task[t].entry.again => (task[t].logins = 0 /\ task[t].pc \notin {"login1", "login2", "accounts"})

\* C16: once resolved, the account number never changes, and no call of
\* _ensure_auth that starts with a resolved account number sends the
\* account query.
C16_AccountReuse ==
  [][ /\ ~IsNone(account_number) => account_number' = account_number
      /\ \A t \in Tasks : task'[t].entry.resolved => task'[t].pc # "accounts" ]_vars

\* a login attempt of cycle t ends in this step: it fails, or it succeeds
LoginFails(t) == task[t].pc \in {"login1", "login2"} /\ task'[t].pc = "failed"
LoginSucceeds(t) == task[t].pc \in {"login1", "login2"} /\ task'[t].pc # "failed"

\* the expiry a stored token carries: that of a JWT, none for another string
ExpiryCarried(tok) ==
  IF IsNone(tok) \/ Val(tok).form # "jwt" THEN None ELSE Some(Val(tok).exp)

\* C21: a login attempt that fails (the request raises, or the response
\* has no token or an empty one) leaves token, expiry and account number
\* as they were; token and expiry change in no step but that of a
\* successful login, which stores a token together with the expiry it
\* carries.
C21_FailedLoginKeepsSession ==
  [][ /\ (\E t \in Tasks : LoginFails(t)) =>
           (/\ access_token' = access_token
            /\ access_exp' = access_exp
            /\ account_number' = account_number)
      /\ (access_token' # access_token \/ access_exp' # access_exp) =>
           (/\ \E t \in Tasks : LoginSucceeds(t)
            /\ ~IsNone(access_token')
            /\ Val(access_token') # EmptyToken
            /\ access_exp' = ExpiryCarried(access_token')) ]_vars

\* the second of two cycles started with a token near its expiry and with
\* the account number, so that its one request before the readings query
\* was a login; it has failed with OEJPAuthError and no authenticated
\* request of it has (reauth is not set): the login has failed, and the
\* session still holds the token, its expiry and the account number
C21_Witness ==
  /\ cycles = 2
  /\ task[1].pc = "done"
  /\ task[2].pc = "failed"
  /\ task[2].cause = "OEJPAuthError"
  /\ task[2].entry.held /\ task[2].entry.near /\ task[2].entry.resolved
  /\ task[2].logins = 1
  /\ ~reauth
  /\ ~IsNone(access_token)
  /\ ~IsNone(access_exp)
  /\ ~IsNone(account_number)

----------------------------------------------------------------------------
(* The snapshot of async_get_dashboard with its calendar sums, stored by   *)
(* the coordinator and applied by the accumulator.                         *)

InitDash ==
  /\ today \in Dates
  /\ range_up \in RangeLists(today)
  /\ upstream \in RecentLists
  /\ dashboard = None
  /\ hh_out = None
  /\ snapshot = None
  /\ total = None
  /\ last_end = None
  /\ data = None
  /\ added = FALSE
  /\ last_state = Some([state |-> [kind |-> "num", val |-> 125],
                        attributes |-> Some(ExtraStateAttributes(Some(IsoJst(31))))])
  /\ op = "init"
  /\ pre = NoPre
  /\ nticks = 0
  /\ restored = None
  /\ ticks = 0
  /\ restarts = 0
  /\ hist = NoHist
  /\ shadow = NoShadow
  /\ IdlePost
  /\ IdleApi
  /\ IdleShape
  /\ IdleValue

\* async_get_dashboard returns
ComputeDashboard ==
  /\ IsNone(dashboard)
  /\ dashboard' = Some(Dashboard(today, upstream, range_up))
  /\ UNCHANGED <<today, range_up, accVars, fetchVars, postVars, apiVars, shapeVars, valueVars>>

\* _async_update_data returns the snapshot and the coordinator keeps it as
\* its data
StoreDashboard ==
  /\ ~IsNone(dashboard)
  /\ data # dashboard
  /\ data' = dashboard
  /\ nticks' = 0
  /\ op' = "refresh"
  /\ pre' = NoPre
  /\ UNCHANGED <<total, last_end, added, last_state, restored, ticks, restarts, hist, shadow,
                 fetchVars, postVars, apiVars, dashVars, shapeVars, valueVars>>

NextDash == ComputeDashboard \/ StoreDashboard \/ AddedToHass \/ AsyncUpdate

SpecDash == InitDash /\ [][NextDash]_vars

\* the sum of the values of the readings whose start lies in [lo, hi)
RECURSIVE SumValuesIn(_, _, _)
SumValuesIn(readings, lo, hi) ==
  IF readings = <<>> THEN 0
  ELSE (IF Head(readings).start_at >= lo /\ Head(readings).start_at < hi
        THEN Head(readings).value ELSE 0)
       + SumValuesIn(Tail(readings), lo, hi)

\* an instant later than every start of the model
Later == MidnightJst(Date(2024, 3, 1)) + 1000 * HalfHoursPerDay

\* the records of the range window, each parsed, in the upstream's order
ParsedRange == [i \in 1..Len(range_up) |-> HHReading(range_up[i])]

\* 00:00 JST of today
TodayMidnight == MidnightJst(today)

\* C11: today_kwh is the sum of the range-window readings that start at
\* today's midnight (JST) or later, yesterday_kwh the sum of those that
\* start in the 24 hours before it: a reading that starts exactly at
\* midnight counts for today only, one that starts the instant before for
\* yesterday only, one that starts before yesterday's midnight for neither.
C11_TodayYesterdayBoundary ==
  ~IsNone(dashboard) =>
    /\ Val(dashboard).today_kwh = SumValuesIn(ParsedRange, TodayMidnight, Later)
    /\ Val(dashboard).yesterday_kwh =
         SumValuesIn(ParsedRange, TodayMidnight - HalfHoursPerDay, TodayMidnight)

\* a snapshot was computed from a reading of 0.3 kWh that starts at today's
\* midnight and one of 0.4 kWh that starts the instant before
C11_Witness ==
  /\ ~IsNone(dashboard)
  /\ range_up = <<RangeReading(TodayMidnight, 3), RangeReading(TodayMidnight - 1, 4)>>
  /\ Val(dashboard).today_kwh = 3
  /\ Val(dashboard).yesterday_kwh = 4

\* 00:00 JST of the first day of this month and of the month before
ThisMonthStart == MidnightJst(Date(today.year, today.month, 1))
LastMonthStart ==
  IF today.month = 1 THEN MidnightJst(Date(2023, 12, 1)) ELSE MidnightJst(Date(2024, 2, 1))

\* C12: month_to_date_kwh is the sum of the range-window readings that
\* start at month_start or later, last_month_kwh the sum of those that start
\* in [prev_month_start, month_start); when no reading starts before
\* prev_month_start the two add up to the sum of all readings.
C12_MonthPartition ==
  ~IsNone(dashboard) =>
    /\ Val(dashboard).month_to_date_kwh = SumValuesIn(ParsedRange, ThisMonthStart, Later)
    /\ Val(dashboard).last_month_kwh = SumValuesIn(ParsedRange, LastMonthStart, ThisMonthStart)
    /\ (\A i \in 1..Len(ParsedRange) : ParsedRange[i].start_at >= LastMonthStart)
         => Val(dashboard).month_to_date_kwh + Val(dashboard).last_month_kwh
              = SumValuesIn(ParsedRange, -Later, Later)

\* a snapshot was computed in January from a reading of 0.4 kWh that starts
\* at 00:00 on 1 December and one of 0.3 kWh that starts at 00:00 on 1 January
C12_Witness ==
  /\ ~IsNone(dashboard)
  /\ today.month = 1
  /\ range_up = <<RangeReading(ThisMonthStart, 3), RangeReading(LastMonthStart, 4)>>
  /\ Val(dashboard).month_to_date_kwh = 3
  /\ Val(dashboard).last_month_kwh = 4

\* the snapshot of two empty windows
EmptySnapshot ==
  [ today_kwh |-> 0, yesterday_kwh |-> 0, month_to_date_kwh |-> 0, last_month_kwh |-> 0,
    last_half_hour_kwh |-> None, last_interval_end_jst |-> None, recent_readings |-> <<>> ]

\* C14: when both windows return no reading the snapshot has the four sums
\* zero, last_half_hour_kwh and last_interval_end_jst None and an empty
\* recent_readings, and an update tick on it changes neither total nor
\* last_applied_end.
C14_EmptyReadings ==
  (upstream = <<>> /\ range_up = <<>>) =>
    /\ ~IsNone(dashboard) => Val(dashboard) = EmptySnapshot
    /\ (op = "tick" /\ ~IsNone(data)) =>
         (data = Some(EmptySnapshot) /\ total = pre.total /\ last_end = pre.last_end)

\* an update tick has run on the snapshot of two empty windows
C14_Witness ==
  /\ upstream = <<>>
  /\ range_up = <<>>
  /\ op = "tick"
  /\ data = Some(EmptySnapshot)
  /\ total = Some(125)
  /\ last_end = Some(IsoJst(31))

\* the sums the loop of async_get_dashboard adds reading r to
AddedTo(r) ==
  LET after == AddToSums(ZeroSums, r, Boundaries(today))
  IN { f \in DOMAIN after : after[f] # 0 }

\* C22: with readings of no negative value, every reading added to
\* today_kwh is added to month_to_date_kwh, so that today_kwh <=
\* month_to_date_kwh in the snapshot; every reading added to yesterday_kwh
\* is added to exactly one of month_to_date_kwh and last_month_kwh, to
\* last_month_kwh exactly when today is the first day of the month.
C22_BucketFamilies ==
  (~IsNone(dashboard) /\ \A i \in 1..Len(ParsedRange) : ParsedRange[i].value >= 0) =>
    /\ \A i \in 1..Len(ParsedRange) :
         LET r == ParsedRange[i]
         IN /\ "today_kwh" \in AddedTo(r) => "mtd_kwh" \in AddedTo(r)
            /\ "yday_kwh" \in AddedTo(r) =>
                 /\ ("mtd_kwh" \in AddedTo(r)) # ("last_month_kwh" \in AddedTo(r))
                 /\ ("last_month_kwh" \in AddedTo(r)) = (today.day = 1)
    /\ Val(dashboard).today_kwh <= Val(dashboard).month_to_date_kwh
    /\ IF today.day = 1
       THEN Val(dashboard).yesterday_kwh <= Val(dashboard).last_month_kwh
       ELSE Val(dashboard).today_kwh + Val(dashboard).yesterday_kwh
              <= Val(dashboard).month_to_date_kwh

\* a snapshot was computed on 1 March from a reading of 0.3 kWh that starts
\* at today's midnight, which counts for today and the month to date, and
\* one of 0.4 kWh that starts the instant before, which counts for
\* yesterday and last month
C22_Witness ==
  /\ ~IsNone(dashboard)
  /\ today = Date(2024, 3, 1)
  /\ Len(range_up) = 2
  /\ AddedTo(ParsedRange[1]) = {"today_kwh", "mtd_kwh"}
  /\ AddedTo(ParsedRange[2]) = {"yday_kwh", "last_month_kwh"}
  /\ Val(dashboard).today_kwh = 3
  /\ Val(dashboard).month_to_date_kwh = 3
  /\ Val(dashboard).yesterday_kwh = 4
  /\ Val(dashboard).last_month_kwh = 4

----------------------------------------------------------------------------
(* async_get_hh_readings on the data record of the readings response.      *)

InitShape ==
  /\ hh_data \in ShapeAccounts
  /\ hh_result = None
  /\ IdleAcc
  /\ IdleFetch
  /\ IdlePost
  /\ IdleApi
  /\ IdleDash
  /\ IdleValue

\* async_get_hh_readings goes on after _post has returned the data record
ReadShape ==
  /\ IsNone(hh_result)
  /\ hh_result' = Some(ReadingsOf(hh_data))
  /\ UNCHANGED <<hh_data, accVars, fetchVars, postVars, apiVars, dashVars, valueVars>>

NextShape == ReadShape

SpecShape == InitShape /\ [][NextShape]_vars

\* the response has the expected nesting down to a readings list (null
\* standing for no readings)
WellNested(account) ==
  /\ account.t = "obj"
  /\ account.v.t = "list" /\ account.v.v # <<>>
  /\ account.v.v[1].v.t = "list" /\ account.v.v[1].v.v # <<>>
  /\ account.v.v[1].v.v[1].v.t \in {"list", "null"}

----------------------------------------------------------------------------
(* The value of a reading record, from the response text to HHReading.     *)

\* the digits of the values the upstream may write, the point left out:
\* small readings, and values of 15, 16 and 17 digits
ValueDigits ==
  { <<>>, <<1>>, <<3>>, <<3, 0>>, <<1, 2, 5>>, <<1, 2, 3, 4>>, <<9, 9, 9, 9>>,
    <<1, 0, 0, 0, 0>>, <<1, 2, 3, 4, 5, 6, 7>>,
    <<3, 1, 8, 0, 9, 7, 6, 0, 7, 1, 0, 4, 7, 1, 5>>,
    <<7, 4, 3, 1, 9, 1, 0, 1, 6, 2, 2, 8, 7, 1, 7, 6>>,
    <<8, 9, 9, 9, 9, 7, 0, 1, 7, 2, 3, 6, 7, 3, 8, 4, 2>> }

\* a value is written as a JSON string or as a JSON number, with 0 to
\* MaxDecimals digits after the point
ValueTexts == [form : {"string", "number"}, digits : ValueDigits, scale : 0..MaxDecimals]

InitValue ==
  /\ value_text \in ValueTexts
  /\ parsed = None
  /\ IdleAcc
  /\ IdleFetch
  /\ IdlePost
  /\ IdleApi
  /\ IdleDash
  /\ IdleShape

\* _post parses the body and async_get_hh_readings builds the HHReading
ParseReadingValue ==
  /\ IsNone(parsed)
  /\ parsed' = Some(ParseValue(value_text))
  /\ UNCHANGED <<value_text, accVars, fetchVars, postVars, apiVars, dashVars, shapeVars>>

NextValue == ParseReadingValue

SpecValue == InitValue /\ [][NextValue]_vars

\* two decimals are the same number
SameDecimal(a, b) ==
  Strip(a.digits \o Zeros(b.scale)) = Strip(b.digits \o Zeros(a.scale))

\* C17: the Decimal held in HHReading for a value of up to 4 decimal places
\* is the decimal the response text writes, exactly.
C17_ExactDecimal ==
  ~IsNone(parsed) =>
    SameDecimal(Val(parsed), [digits |-> value_text.digits, scale |-> value_text.scale])

====
